---- MODULE Spec2Model ----
(***************************************************************************)
(* Batch deployment pipeline of deployment_orchestrator.py: identifier     *)
(* allocation, load distribution, batch partitioning, the per-batch        *)
(* provisioning/configuration pipeline and the run loop with its report.   *)
(*                                                                         *)
(* The functions get_next_available_vm_id ... generate_deployment_report   *)
(* are modelled as the methods of DeploymentOrchestrator their bodies are  *)
(* written to be (they all take self and are called through it).           *)
(* Users are identified by their username, templates by their key in the   *)
(* catalog, nodes by their name; the names of one roster/inventory are     *)
(* distinct.  Roster index i of the source (0-based) is position i + 1 of  *)
(* the sequence here.                                                      *)
(***************************************************************************)
EXTENDS Integers, Sequences, FiniteSets, TLC

\* ------------------------------------------------------------------ bounds
MaxUsers == 3
MaxNodes == 2
MaxTemplates == 2
MaxBatchSize == 2
\* roster length of a dry run (longer than the sample it takes)
MaxDryUsers == 6
\* identifiers DefaultStartId .. DefaultStartId + IdSpan - 1 may pre-exist
IdSpan == 3

\* --------------------------------------------------------- program constants
DefaultStartId == 500
SampleSize == 5
BatchIdWidth == 3

Playbooks ==
    << "base_configuration.yml", "guacamole_integration.yml",
       "netbox_integration.yml", "freeipa_integration.yml" >>

\* every exception class an external call or a render can raise; all of
\* them derive from Exception
ExceptionClasses == {"CalledProcessError", "OSError", "JSONDecodeError", "TemplateError"}

Min(a, b) == IF a < b THEN a ELSE b

Range(s) == {s[i] : i \in DOMAIN s}

\* ------------------------------------------------------- identifier allocator

\* the while loop of get_next_available_vm_id: walk up from start_id while the
\* candidate is in existing_ids
RECURSIVE NextAvailable(_, _)
NextAvailable(current_id, existing) ==
    IF current_id \in existing THEN NextAvailable(current_id + 1, existing)
    ELSE current_id

\* the except branch of get_next_available_vm_id: the ids collected so far
\* are dropped and start_id itself is returned
QueryFailedResultCollected(start, collected) == NextAvailable(start, collected)
QueryFailedResult(start, collected) == start

\* vm_key = f"{user.username}_{vm_type}"
VmKey(username, vm_type) == <<username, vm_type>>

\* the keys in the order the nested loops of generate_vm_ids visit them
RECURSIVE KeysOfUser(_, _)
KeysOfUser(username, tmpls) ==
    IF tmpls = <<>> THEN <<>>
    ELSE <<VmKey(username, Head(tmpls))>> \o KeysOfUser(username, Tail(tmpls))

RECURSIVE KeyOrder(_, _)
KeyOrder(us, tmpls) ==
    IF us = <<>> THEN <<>>
    ELSE KeysOfUser(Head(us), tmpls) \o KeyOrder(Tail(us), tmpls)

\* vm_id_map[vm_key] = current_id ; current_id += 1
RECURSIVE AssignIds(_, _, _)
AssignIds(keys, current_id, vm_id_map) ==
    IF keys = <<>> THEN vm_id_map
    ELSE AssignIds(Tail(keys), current_id + 1,
                   (Head(keys) :> current_id) @@ vm_id_map)

\* generate_vm_ids with start_id already resolved: one id per (user, template)
\* of ALL users of the roster, consecutive from start
GenerateVmIds(us, tmpls, start) == AssignIds(KeyOrder(us, tmpls), start, <<>>)

\* --------------------------------------------------------- load distribution

\* vm_node = node_names[(i + j) % len(node_names)], i and j 0-based
VmNodeNoOffset(i, j, node_names) == node_names[(i % Len(node_names)) + 1]
VmNode(i, j, node_names) == node_names[((i + j) % Len(node_names)) + 1]

\* target_node = node_names[i % len(node_names)]
TargetNodeShifted(i, node_names) == node_names[((i + 1) % Len(node_names)) + 1]
TargetNode(i, node_names) == node_names[(i % Len(node_names)) + 1]

\* user.vm_assignments = {vm_type: vm_node} built by the inner loop
UserVmAssignments(i, tmpls, node_names) ==
    [vm_type \in Range(tmpls) |->
        VmNode(i, (CHOOSE j \in DOMAIN tmpls : tmpls[j] = vm_type) - 1, node_names)]

\* the outer loop: node_assignments[target_node].append(user), users taken in
\* roster order; i is the 0-based index of the next user
RECURSIVE AppendUsers(_, _, _, _)
AppendUsers(us, i, node_names, node_assignments) ==
    IF i >= Len(us) THEN node_assignments
    ELSE AppendUsers(us, i + 1, node_names,
            [node_assignments EXCEPT ![TargetNode(i, node_names)] =
                Append(@, us[i + 1])])

NodeAssignments(us, node_names) ==
    AppendUsers(us, 0, node_names, [n \in Range(node_names) |-> <<>>])

AllVmAssignments(us, tmpls, node_names) ==
    [u \in Range(us) |->
        UserVmAssignments((CHOOSE i \in DOMAIN us : us[i] = u) - 1, tmpls, node_names)]

\* ------------------------------------------------------------- batch planner

Digits == << "0", "1", "2", "3", "4", "5", "6", "7", "8", "9" >>

RECURSIVE Decimal(_)
Decimal(n) == IF n < 10 THEN <<Digits[n + 1]>>
              ELSE Decimal(n \div 10) \o <<Digits[(n % 10) + 1]>>

RECURSIVE ZeroPad(_, _)
ZeroPad(s, width) == IF Len(s) >= width THEN s ELSE ZeroPad(<<"0">> \o s, width)

\* f"batch_{i // batch_size + 1:03d}"
BatchIdZeroBased(i, size) == <<"batch_">> \o ZeroPad(Decimal(i \div size), BatchIdWidth)
BatchId(i, size) == <<"batch_">> \o ZeroPad(Decimal((i \div size) + 1), BatchIdWidth)

\* self.users[i:i + batch_size]
SliceShort(us, i, size) == SubSeq(us, i + 1, Min(i + size - 1, Len(us)))
Slice(us, i, size) == SubSeq(us, i + 1, Min(i + size, Len(us)))

\* for i in range(0, len(self.users), batch_size): user_batches.append(...)
RECURSIVE PlanBatches(_, _, _)
PlanBatches(us, i, size) ==
    IF i >= Len(us) THEN <<>>
    ELSE <<[users |-> Slice(us, i, size), batch_id |-> BatchId(i, size)]>>
         \o PlanBatches(us, i + size, size)

\* batch_dir = f"terraform_batches/batch_{batch_id}"
BatchDir(batch_id) == <<"terraform_batches/", "batch_">> \o batch_id


\* ---------------------------------------------------------------- the state

VARIABLES
    users,            \* self.users, the roster in order
    deployments,      \* self.deployments, the VMDeployment records
    nodes,            \* node names of self.nodes, in order
    templates,        \* keys of self.templates, in order
    batch_size,       \* --batch-size
    dry_run,          \* --dry-run
    cluster,          \* node -> VM ids in use on it (what pvesh reports)
    vm_assignments,   \* user -> (template -> node), User.vm_assignments
    node_assignments, \* node -> users, returned by calculate_load_distribution
    user_batches,     \* deploy_all_users: the planned (batch, batch_id) list
    results,          \* deploy_all_users: batch_id -> success
    batchIdx,         \* deploy_all_users: batches taken from user_batches so far
    started,          \* batch ids logged "Starting deployment for batch"
    batch,            \* user_batch and batch_id of the running call
    pc,               \* position of the single thread of control
    existing_ids,     \* get_next_available_vm_id: ids collected so far
    qnode,            \* get_next_available_vm_id: next node to query
    queryFailed,      \* the warning "Could not query existing VM IDs" was logged
    start_id,         \* generate_vm_ids: start_id
    vm_ids,           \* create_terraform_configs: vm_ids
    descriptors,      \* batch_dir -> what was rendered into its *.tf files
    cwd,              \* the process working directory
    original_cwd,     \* deploy_terraform_batch: original_cwd
    tfLog,            \* terraform sub-steps invoked by the running call
    outputs,          \* batch dirs holding terraform_outputs.json
    pbIdx,            \* run_ansible_playbooks: position in playbooks
    pbRan,            \* run_ansible_playbooks: playbooks executed so far
    steps,            \* deploy_batch: the steps called so far, with outcome
    exc,              \* deploy_batch: the exception in flight / caught
    success,          \* deploy_batch: its return value
    report,           \* the reports written, each the counts rendered by
                      \* generate_deployment_report
    exit_code         \* process exit status, -1 while running

inputs == << users, nodes, templates, batch_size, dry_run >>
planning == << vm_assignments, node_assignments, user_batches >>
alloc == << existing_ids, qnode, queryFailed, start_id, vm_ids >>
tf == << cwd, original_cwd, tfLog, outputs >>
ansible == << pbIdx, pbRan >>
run == << results, batchIdx, started, report, exit_code >>

vars == << users, deployments, nodes, templates, batch_size, dry_run, cluster,
           vm_assignments, node_assignments, user_batches, results, batchIdx,
           started, batch, pc, existing_ids, qnode, queryFailed, start_id,
           vm_ids, descriptors, cwd, original_cwd, tfLog, outputs, pbIdx,
           pbRan, steps, exc, success, report, exit_code >>

NoBatch == [users |-> <<>>, batch_id |-> <<>>]
LaunchDir == <<>>

ExistingRange == DefaultStartId .. (DefaultStartId + IdSpan - 1)

\* the state after DeploymentOrchestrator(...) and load_users_from_csv(...):
\* a roster, an inventory, a catalog, the flags, and a cluster that already
\* holds any set of ids of ExistingRange (id v lives on node v mod |nodes|)
Init ==
    /\ dry_run \in BOOLEAN
    /\ deployments = <<>>
    /\ \E n \in 0..(IF dry_run THEN MaxDryUsers ELSE MaxUsers) :
          users = [i \in 1..n |-> i]
    /\ \E m \in 1..MaxNodes : nodes = [i \in 1..m |-> i]
    /\ \E t \in 1..MaxTemplates : templates = [i \in 1..t |-> i]
    /\ batch_size \in 1..MaxBatchSize
    /\ \E E \in SUBSET ExistingRange :
          cluster = [n \in Range(nodes) |->
                        {v \in E : nodes[(v % Len(nodes)) + 1] = n}]
    /\ vm_assignments = <<>>
    /\ node_assignments = <<>>
    /\ user_batches = <<>>
    /\ results = <<>>
    /\ batchIdx = 0
    /\ started = <<>>
    /\ batch = NoBatch
    /\ pc = "main"
    /\ existing_ids = {}
    /\ qnode = 0
    /\ queryFailed = FALSE
    /\ start_id = 0
    /\ vm_ids = <<>>
    /\ descriptors = <<>>
    /\ cwd = LaunchDir
    /\ original_cwd = LaunchDir
    /\ tfLog = <<>>
    /\ outputs = {}
    /\ pbIdx = 0
    /\ pbRan = <<>>
    /\ steps = <<>>
    /\ exc = "none"
    /\ success = FALSE
    /\ report = <<>>
    /\ exit_code = -1

ClusterIds == UNION {cluster[n] : n \in DOMAIN cluster}


\* --------------------------------------------------------- exception routing

MarkLast(s, out) == [s EXCEPT ![Len(s)].out = out]

\* deploy_batch: "except Exception as e" catches every exception class that
\* reaches it, also the Exception it raises itself on a False step result
CatchesProcessErrorsOnly(e) == e = "CalledProcessError"
Catches(e) == e \in ExceptionClasses \cup {"Exception"}

\* an exception e leaves the running step.  Inside deploy_batch it is caught
\* (logged, return False); in the dry run nothing catches it
Propagate(e) ==
    /\ exc' = e
    /\ IF ~dry_run /\ Catches(e)
       THEN /\ pc' = "batch_return"
            /\ success' = FALSE
            /\ steps' = MarkLast(steps, "failed")
       ELSE /\ pc' = "crashed"
            /\ UNCHANGED << success, steps >>

\* ------------------------------------------------------------------- main

\* sample_batch = orchestrator.users[:min(5, len(orchestrator.users))]
SampleBatchAll(us) == us
SampleBatch(us) == SubSeq(us, 1, Min(SampleSize, Len(us)))

\* main, dry-run branch: distribution, then the sample batch enters
\* create_terraform_configs(sample_batch, "sample")
DryRun ==
    /\ pc = "main"
    /\ dry_run
    /\ vm_assignments' = AllVmAssignments(users, templates, nodes)
    /\ node_assignments' = NodeAssignments(users, nodes)
    /\ batch' = [users |-> SampleBatch(users), batch_id |-> <<"sample">>]
    /\ pc' = "makedirs"
    /\ UNCHANGED << inputs, deployments, cluster, user_batches, alloc, descriptors, tf,
                    ansible, run, steps, exc, success >>

\* deploy_all_users up to the loop: distribution, batches, results = {}
DeployAllUsers ==
    /\ pc = "main"
    /\ ~dry_run
    /\ vm_assignments' = AllVmAssignments(users, templates, nodes)
    /\ node_assignments' = NodeAssignments(users, nodes)
    /\ user_batches' = PlanBatches(users, 0, batch_size)
    /\ results' = <<>>
    /\ batchIdx' = 0
    /\ pc' = "loop"
    /\ UNCHANGED << inputs, deployments, cluster, started, batch, alloc, descriptors, tf,
                    ansible, steps, exc, success, report, exit_code >>

\* "for batch_users, batch_id in user_batches": the entry after the i-th of n
NextBatchSkips(i, n) == Min(i + 2, n)
NextBatch(i, n) == i + 1

\* the for loop takes the next batch and calls deploy_batch, which logs the
\* start and calls create_terraform_configs
StartBatch ==
    /\ pc = "loop"
    /\ batchIdx < Len(user_batches)
    /\ batchIdx' = NextBatch(batchIdx, Len(user_batches))
    /\ batch' = user_batches[batchIdx']
    /\ started' = Append(started, user_batches[batchIdx'].batch_id)
    /\ steps' = << [name |-> "descriptors", out |-> "running"] >>
    /\ exc' = "none"
    /\ pc' = "makedirs"
    /\ UNCHANGED << inputs, deployments, cluster, planning, results, alloc, descriptors, tf,
                    ansible, success, report, exit_code >>

\* the for loop is exhausted
LoopExhausted ==
    /\ pc = "loop"
    /\ batchIdx = Len(user_batches)
    /\ pc' = "report"
    /\ UNCHANGED << inputs, deployments, cluster, planning, run, batch, alloc, descriptors,
                    tf, ansible, steps, exc, success >>

\* ------------------------------------------------- create_terraform_configs

\* os.makedirs(batch_dir, exist_ok=True), then generate_vm_ids() enters
\* get_next_available_vm_id(500) with existing_ids = set()
MakeBatchDir ==
    /\ pc = "makedirs"
    /\ \/ /\ pc' = "query"
          /\ existing_ids' = {}
          /\ qnode' = 1
          /\ queryFailed' = FALSE
          /\ UNCHANGED << steps, exc, success >>
       \/ /\ Propagate("OSError")
          /\ UNCHANGED << existing_ids, qnode, queryFailed >>
    /\ UNCHANGED << inputs, deployments, cluster, planning, run, batch, start_id, vm_ids,
                    descriptors, tf, ansible >>

\* one pvesh query answers: its vmids join existing_ids
QueryNodeOk ==
    /\ pc = "query"
    /\ qnode <= Len(nodes)
    /\ existing_ids' = existing_ids \cup cluster[nodes[qnode]]
    /\ qnode' = qnode + 1
    /\ UNCHANGED << inputs, deployments, cluster, planning, run, batch, pc, queryFailed,
                    start_id, vm_ids, descriptors, tf, ansible, steps, exc,
                    success >>

\* one pvesh query fails (non-zero exit, pvesh missing, bad JSON): the
\* except branch logs the warning and returns start_id
QueryNodeFails ==
    /\ pc = "query"
    /\ qnode <= Len(nodes)
    /\ queryFailed' = TRUE
    /\ start_id' = QueryFailedResult(DefaultStartId, existing_ids)
    /\ pc' = "generate"
    /\ UNCHANGED << inputs, deployments, cluster, planning, run, batch, existing_ids, qnode,
                    vm_ids, descriptors, tf, ansible, steps, exc, success >>

\* every node answered: the first id >= 500 not in existing_ids is returned
FindNextId ==
    /\ pc = "query"
    /\ qnode > Len(nodes)
    /\ start_id' = NextAvailable(DefaultStartId, existing_ids)
    /\ pc' = "generate"
    /\ UNCHANGED << inputs, deployments, cluster, planning, run, batch, existing_ids, qnode,
                    queryFailed, vm_ids, descriptors, tf, ansible, steps, exc,
                    success >>

\* the loops of generate_vm_ids over self.users and self.templates
GenerateIds ==
    /\ pc = "generate"
    /\ vm_ids' = GenerateVmIds(users, templates, start_id)
    /\ pc' = "render"
    /\ UNCHANGED << inputs, deployments, cluster, planning, run, batch, existing_ids, qnode,
                    queryFailed, start_id, descriptors, tf, ansible, steps,
                    exc, success >>

\* main.tf, variables.tf and terraform.tfvars are rendered from template_vars
\* and written into batch_dir; in the dry run main then prints and ends
RenderConfigs ==
    /\ pc = "render"
    /\ \/ /\ descriptors' =
                (BatchDir(batch.batch_id) :>
                    [users |-> batch.users, vm_ids |-> vm_ids,
                     batch_id |-> batch.batch_id]) @@ descriptors
          /\ IF dry_run
             THEN /\ pc' = "done"
                  /\ exit_code' = 0
                  /\ UNCHANGED steps
             ELSE /\ pc' = "tf_chdir"
                  /\ steps' = Append(MarkLast(steps, "ok"),
                                     [name |-> "provisioning", out |-> "running"])
                  /\ UNCHANGED exit_code
          /\ UNCHANGED << exc, success >>
       \/ /\ \E e \in {"TemplateError", "OSError"} : Propagate(e)
          /\ UNCHANGED << descriptors, exit_code >>
    /\ UNCHANGED << inputs, deployments, cluster, planning, results, batchIdx, started,
                    report, batch, alloc, tf, ansible >>


\* --------------------------------------------------- deploy_terraform_batch

\* original_cwd = os.getcwd(); os.chdir(batch_dir)
TfChdir ==
    /\ pc = "tf_chdir"
    /\ original_cwd' = cwd
    /\ \/ /\ cwd' = cwd \o BatchDir(batch.batch_id)
          /\ pc' = "tf_init"
          /\ UNCHANGED exc
       \/ /\ exc' = "OSError"
          /\ pc' = "tf_finally"
          /\ UNCHANGED cwd
    /\ UNCHANGED << inputs, deployments, cluster, planning, run, batch, alloc, descriptors,
                    tfLog, outputs, ansible, steps, success >>

\* an exception raised by a statement of the try block leaves the block: the
\* statements after it are not executed, the finally clause is
RaisedInTryContinues(next) == next
RaisedInTry(next) == "tf_finally"

\* one subprocess.run(['terraform', ...], check=True): it exits zero, or
\* raises CalledProcessError, or cannot be run at all
TfInvoke(name, here, next) ==
    /\ pc = here
    /\ tfLog' = Append(tfLog, name)
    /\ \/ /\ pc' = next
          /\ UNCHANGED exc
       \/ /\ \E e \in {"CalledProcessError", "OSError"} : exc' = e
          /\ pc' = RaisedInTry(next)

TfInit ==
    /\ TfInvoke("init", "tf_init", "tf_plan")
    /\ UNCHANGED << inputs, deployments, cluster, planning, run, batch, alloc, descriptors,
                    cwd, original_cwd, outputs, ansible, steps, success >>

TfPlan ==
    /\ TfInvoke("plan", "tf_plan", "tf_apply")
    /\ UNCHANGED << inputs, deployments, cluster, planning, run, batch, alloc, descriptors,
                    cwd, original_cwd, outputs, ansible, steps, success >>

\* the VMs the descriptors of the batch declare: for each (user, template) of
\* the batch, the id vm_ids gives the pair, on the node assigned to the pair
Provisioned(n) ==
    { vm_ids[VmKey(u, t)] :
        <<u, t>> \in { p \in Range(batch.users) \X Range(templates) :
                        vm_assignments[p[1]][p[2]] = n } }

\* terraform apply: on success the batch's VMs exist in the cluster
TfApply ==
    /\ TfInvoke("apply", "tf_apply", "tf_output")
    /\ IF pc' = "tf_output"
       THEN cluster' = [n \in DOMAIN cluster |-> cluster[n] \cup Provisioned(n)]
       ELSE UNCHANGED cluster
    /\ UNCHANGED << inputs, deployments, planning, run, batch, alloc, descriptors,
                    cwd, original_cwd, outputs, ansible, steps, success >>

\* terraform output -json, json.loads, terraform_outputs.json written,
\* return True
TfOutput ==
    /\ pc = "tf_output"
    /\ tfLog' = Append(tfLog, "output")
    /\ pc' = "tf_finally"
    /\ \/ /\ outputs' = outputs \cup {BatchDir(batch.batch_id)}
          /\ UNCHANGED exc
       \/ /\ \E e \in {"CalledProcessError", "OSError", "JSONDecodeError"} : exc' = e
          /\ UNCHANGED outputs
    /\ UNCHANGED << inputs, deployments, cluster, planning, run, batch, alloc, descriptors,
                    cwd, original_cwd, ansible, steps, success >>

\* finally: os.chdir(original_cwd)
RestoreCwdSkipped(original, current) == current
RestoreCwd(original, current) == original

\* deploy_batch: "if not self.deploy_terraform_batch(batch_dir): raise"
AfterProvisioningIgnored(ok) == "inventory"
AfterProvisioning(ok) == IF ok THEN "inventory" ELSE "raise"

\* deploy_terraform_batch leaves: the finally clause runs, then True is
\* returned, or False (CalledProcessError was caught), or the other exception
\* goes on to deploy_batch, which checks the result
TfFinally ==
    /\ pc = "tf_finally"
    /\ cwd' = RestoreCwd(original_cwd, cwd)
    /\ IF exc \in {"none", "CalledProcessError"}
       THEN IF AfterProvisioning(exc = "none") = "inventory"
            THEN /\ steps' = Append(MarkLast(steps, IF exc = "none" THEN "ok" ELSE "failed"),
                                    [name |-> "inventory", out |-> "running"])
                 /\ pc' = "inventory"
                 /\ exc' = "none"
                 /\ UNCHANGED success
            ELSE Propagate("Exception")
       ELSE Propagate(exc)
    /\ UNCHANGED << inputs, deployments, cluster, planning, run, batch, alloc, descriptors,
                    original_cwd, tfLog, outputs, ansible >>

\* ----------------------------------------------- generate_ansible_inventory

\* terraform_outputs.json is read and inventory.yml rendered and written; any
\* exception is logged and raised again
GenerateInventory ==
    /\ pc = "inventory"
    /\ \/ /\ BatchDir(batch.batch_id) \in outputs
          /\ steps' = Append(MarkLast(steps, "ok"),
                             [name |-> "configuration", out |-> "running"])
          /\ pc' = "playbooks"
          /\ pbIdx' = 1
          /\ pbRan' = <<>>
          /\ UNCHANGED << exc, success >>
       \/ /\ \E e \in {"OSError", "JSONDecodeError", "TemplateError"} : Propagate(e)
          /\ UNCHANGED ansible
    /\ UNCHANGED << inputs, deployments, cluster, planning, run, batch, alloc, descriptors, tf >>

\* ---------------------------------------------------- run_ansible_playbooks

\* "if not os.path.exists(playbook_path): ... continue"
AbsentFailsStep(playbook) == "return False"
Absent(playbook) == "continue"

\* os.path.exists(playbook_path) is false: warning, continue
PlaybookAbsent ==
    /\ pc = "playbooks"
    /\ pbIdx <= Len(Playbooks)
    /\ IF Absent(Playbooks[pbIdx]) = "continue"
       THEN /\ pbIdx' = pbIdx + 1
            /\ UNCHANGED << pc, steps, exc, success >>
       ELSE /\ Propagate("Exception")
            /\ UNCHANGED pbIdx
    /\ UNCHANGED << inputs, deployments, cluster, planning, run, batch, alloc,
                    descriptors, tf, pbRan >>

\* the playbook exists and ansible-playbook exits zero
PlaybookRuns ==
    /\ pc = "playbooks"
    /\ pbIdx <= Len(Playbooks)
    /\ pbRan' = Append(pbRan, Playbooks[pbIdx])
    /\ pbIdx' = pbIdx + 1
    /\ UNCHANGED << inputs, deployments, cluster, planning, run, batch, pc, alloc,
                    descriptors, tf, steps, exc, success >>

\* the playbook exists and ansible-playbook exits non-zero (return False, on
\* which deploy_batch raises) or cannot be run at all
PlaybookFails ==
    /\ pc = "playbooks"
    /\ pbIdx <= Len(Playbooks)
    /\ pbRan' = Append(pbRan, Playbooks[pbIdx])
    /\ \E e \in {"Exception", "OSError"} : Propagate(e)
    /\ UNCHANGED << inputs, deployments, cluster, planning, run, batch, alloc, descriptors,
                    tf, pbIdx >>

\* the for loop over playbooks ends: return True; deploy_batch logs
\* "Successfully completed" and returns True
PlaybooksDone ==
    /\ pc = "playbooks"
    /\ pbIdx > Len(Playbooks)
    /\ steps' = MarkLast(steps, "ok")
    /\ success' = TRUE
    /\ pc' = "batch_return"
    /\ UNCHANGED << inputs, deployments, cluster, planning, run, batch, alloc, descriptors,
                    tf, ansible, exc >>

\* ------------------------------------------------------- the run loop's tail

\* "if not success: ... break"
AfterBatchNoBreak(ok) == "loop"
AfterBatch(ok) == IF ok THEN "loop" ELSE "report"

\* deploy_batch has returned: results[batch_id] = success, break on failure;
\* the locals of the finished call are gone
RecordResult ==
    /\ pc = "batch_return"
    /\ results' = (batch.batch_id :> success) @@ results
    /\ pc' = AfterBatch(success)
    /\ batch' = NoBatch
    /\ existing_ids' = {}
    /\ qnode' = 0
    /\ queryFailed' = FALSE
    /\ start_id' = 0
    /\ vm_ids' = <<>>
    /\ tfLog' = <<>>
    /\ pbIdx' = 0
    /\ pbRan' = <<>>
    /\ steps' = <<>>
    /\ exc' = "none"
    /\ success' = FALSE
    /\ UNCHANGED << inputs, deployments, cluster, planning, batchIdx, started, descriptors,
                    cwd, original_cwd, outputs, report, exit_code >>

\* sum(results.values())
SuccessfulCountsEntries(res) == Cardinality(DOMAIN res)
Successful(res) == Cardinality({k \in DOMAIN res : res[k]})

\* total_batches - successful_batches
FailedCount(res) == Cardinality(DOMAIN res) - Successful(res)

\* the counts generate_deployment_report hands to the template
ReportCounts(res) ==
    [total_batches |-> Cardinality(DOMAIN res),
     successful_batches |-> Successful(res),
     failed_batches |-> FailedCount(res)]

\* generate_deployment_report(results), called by main after deploy_all_users
\* has returned: the report is rendered and written, or the template lookup,
\* the render or the write raises, which nothing in main catches
GenerateReport ==
    /\ pc = "report"
    /\ \/ /\ report' = Append(report, ReportCounts(results))
          /\ pc' = "exit"
          /\ UNCHANGED exc
       \/ /\ \E e \in {"TemplateError", "OSError"} : exc' = e
          /\ pc' = "crashed"
          /\ UNCHANGED report
    /\ UNCHANGED << inputs, deployments, cluster, planning, results, batchIdx, started,
                    exit_code, batch, alloc, descriptors, tf, ansible, steps,
                    success >>

\* "if not all(results.values()): sys.exit(1)"
ExitCodeAny(res) == IF \E k \in DOMAIN res : res[k] THEN 0 ELSE 1
ExitCode(res) == IF \A k \in DOMAIN res : res[k] THEN 0 ELSE 1

Exit ==
    /\ pc = "exit"
    /\ exit_code' = ExitCode(results)
    /\ pc' = "done"
    /\ UNCHANGED << inputs, deployments, cluster, planning, results, batchIdx, started,
                    report, batch, alloc, descriptors, tf, ansible, steps,
                    exc, success >>

\* an exception nothing caught ends the process with a traceback
Crash ==
    /\ pc = "crashed"
    /\ exit_code' = 1
    /\ pc' = "done"
    /\ UNCHANGED << inputs, deployments, cluster, planning, results, batchIdx, started,
                    report, batch, alloc, descriptors, tf, ansible, steps,
                    exc, success >>

Next ==
    \/ DryRun
    \/ DeployAllUsers
    \/ StartBatch
    \/ LoopExhausted
    \/ MakeBatchDir
    \/ QueryNodeOk
    \/ QueryNodeFails
    \/ FindNextId
    \/ GenerateIds
    \/ RenderConfigs
    \/ TfChdir
    \/ TfInit
    \/ TfPlan
    \/ TfApply
    \/ TfOutput
    \/ TfFinally
    \/ GenerateInventory
    \/ PlaybookAbsent
    \/ PlaybookRuns
    \/ PlaybookFails
    \/ PlaybooksDone
    \/ RecordResult
    \/ GenerateReport
    \/ Exit
    \/ Crash

Spec == Init /\ [][Next]_vars


\* ------------------------------------------------------------------ claims

BatchIdOf(k) == user_batches[k].batch_id
Failed(k) == BatchIdOf(k) \in DOMAIN results /\ ~results[BatchIdOf(k)]
Keys == KeyOrder(users, templates)
CurrentDir == BatchDir(batch.batch_id)

\* the ids the descriptors of directory d use for the (user, template) pairs
\* of its batch
UsedIds(d) ==
    { descriptors[d].vm_ids[VmKey(u, t)] :
        <<u, t>> \in Range(descriptors[d].users) \X Range(templates) }

\* C1: once batch k is recorded as failed, the loop has taken no batch after
\* k: no later batch was started, none has descriptors, none has an entry in
\* results, and control is past the loop.
FailFast ==
    \A k \in 1..Len(user_batches) :
        Failed(k) =>
            /\ batchIdx = k
            /\ pc \in {"report", "exit", "done", "crashed"}
            /\ \A j \in (k + 1)..Len(user_batches) :
                  /\ BatchIdOf(j) \notin DOMAIN results
                  /\ BatchIdOf(j) \notin Range(started)
                  /\ BatchDir(BatchIdOf(j)) \notin DOMAIN descriptors

\* C1 witness: the run has ended, the second of three batches failed after the
\* first succeeded, and the third has no outcome
FailFastWitness ==
    /\ pc = "done"
    /\ Len(user_batches) = 3
    /\ DOMAIN results = {BatchIdOf(1), BatchIdOf(2)}
    /\ results[BatchIdOf(1)]
    /\ ~results[BatchIdOf(2)]

\* C2: after an allocation whose queries all succeeded, the ids handed out
\* are pairwise distinct, none is in the existing set, and all are >= floor.
AllocationAvoidsExisting ==
    (pc = "render" /\ ~queryFailed) =>
        /\ \A a, b \in DOMAIN vm_ids : a # b => vm_ids[a] # vm_ids[b]
        /\ \A a \in DOMAIN vm_ids :
              /\ vm_ids[a] \notin existing_ids
              /\ vm_ids[a] >= DefaultStartId

\* C3: the ids the descriptors of the running batch use are in no earlier
\* batch's descriptors and not in the cluster (pre-existing VMs and the VMs
\* of the earlier batches) when provisioning begins; stated for the batches
\* whose own existing-id queries all succeeded.
RunWideUniqueIds ==
    (pc = "tf_chdir" /\ ~queryFailed) =>
        /\ UsedIds(CurrentDir) \cap ClusterIds = {}
        /\ \A d \in DOMAIN descriptors \ {CurrentDir} :
              UsedIds(d) \cap UsedIds(CurrentDir) = {}

\* the count smallest integers >= cur that are not in existing, ascending
RECURSIVE SmallestFree(_, _, _)
SmallestFree(count, cur, existing) ==
    IF count = 0 THEN <<>>
    ELSE IF cur \in existing THEN SmallestFree(count, cur + 1, existing)
    ELSE <<cur>> \o SmallestFree(count - 1, cur + 1, existing)

\* C4: after an allocation whose queries all succeeded, the ids in allocation
\* order are exactly the count smallest integers >= floor outside the
\* existing set.
AllocatesSmallestFree ==
    (pc = "render" /\ ~queryFailed) =>
        [i \in 1..Len(Keys) |-> vm_ids[Keys[i]]]
            = SmallestFree(Len(Keys), DefaultStartId, existing_ids)

\* C5: after a failed query (at any node) the start id is the floor, every id
\* generated is floor + position whatever had been collected, and generation
\* does take place: control never leaves the allocation without the ids.
DegradedAllocation ==
    queryFailed =>
        /\ start_id = DefaultStartId
        /\ pc # "generate" =>
              /\ DOMAIN vm_ids = Range(Keys)
              /\ \A i \in 1..Len(Keys) : vm_ids[Keys[i]] = DefaultStartId + i - 1

\* C5 witness: the query failed at a later node after the floor itself had
\* been collected as existing, and the batch went on to succeed
DegradedAllocationWitness ==
    /\ queryFailed
    /\ qnode > 1
    /\ DefaultStartId \in existing_ids
    /\ pc = "batch_return"
    /\ success

\* C6: after the distribution every user has an assignment for exactly the
\* templates of the catalog, and user i's node for template j is
\* nodes[(i + j) mod M].
AssignmentsFollowOffset ==
    pc # "main" =>
        /\ DOMAIN vm_assignments = Range(users)
        /\ \A i \in 1..Len(users) :
              /\ DOMAIN vm_assignments[users[i]] = Range(templates)
              /\ \A j \in 1..Len(templates) :
                    vm_assignments[users[i]][templates[j]]
                        = nodes[(((i - 1) + (j - 1)) % Len(nodes)) + 1]

\* C6 witness: 2 nodes, 2 templates: user 0 has node 0 for template 0 and
\* node 1 for template 1; user 1 has node 1 for template 0 and, wrapping
\* around, node 0 for template 1
AssignmentsFollowOffsetWitness ==
    /\ pc # "main"
    /\ Len(nodes) = 2
    /\ Len(templates) = 2
    /\ Len(users) >= 2
    /\ vm_assignments[users[1]][templates[1]] = nodes[1]
    /\ vm_assignments[users[1]][templates[2]] = nodes[2]
    /\ vm_assignments[users[2]][templates[1]] = nodes[2]
    /\ vm_assignments[users[2]][templates[2]] = nodes[1]

\* C7: the per-node lists hold user i on nodes[i mod M], every user in
\* exactly one list and once, and every list has floor(N/M) or ceil(N/M) users.
NodesBalanced ==
    pc # "main" =>
        LET N == Len(users)
            M == Len(nodes)
        IN  /\ DOMAIN node_assignments = Range(nodes)
            /\ \A i \in 1..N :
                  /\ users[i] \in Range(node_assignments[nodes[((i - 1) % M) + 1]])
                  /\ Cardinality({n \in Range(nodes) :
                        users[i] \in Range(node_assignments[n])}) = 1
            /\ \A n \in Range(nodes) :
                  /\ Cardinality(Range(node_assignments[n])) = Len(node_assignments[n])
                  /\ Len(node_assignments[n]) \in {N \div M, (N + M - 1) \div M}

\* C7 witness: more users than nodes and not a multiple, so lists differ by one
NodesBalancedWitness ==
    /\ pc # "main"
    /\ Len(nodes) = 2
    /\ Len(users) = 3
    /\ Len(node_assignments[nodes[1]]) = 2
    /\ Len(node_assignments[nodes[2]]) = 1

RECURSIVE Concat(_)
Concat(bs) == IF bs = <<>> THEN <<>> ELSE Head(bs).users \o Concat(Tail(bs))

\* C8: the planner yields ceil(N/B) batches, batch k is the roster slice
\* (k-1)*B .. min(k*B, N), the batches concatenate to the roster, none is
\* empty and only the last may be shorter than B.
BatchPartition ==
    (pc # "main" /\ ~dry_run) =>
        LET N == Len(users)
            B == batch_size
        IN  /\ Len(user_batches) = (N + B - 1) \div B
            /\ \A k \in 1..Len(user_batches) :
                  /\ user_batches[k].users = SubSeq(users, (k - 1) * B + 1, Min(k * B, N))
                  /\ Len(user_batches[k].users) >= 1
                  /\ k < Len(user_batches) => Len(user_batches[k].users) = B
            /\ Concat(user_batches) = users

\* C8 witness: 3 users in batches of 2: sizes 2 and 1
BatchPartitionWitness ==
    /\ pc # "main"
    /\ ~dry_run
    /\ Len(users) = 3
    /\ batch_size = 2
    /\ Len(user_batches) = 2
    /\ Len(user_batches[1].users) = 2
    /\ Len(user_batches[2].users) = 1

StepOrder == << "descriptors", "provisioning", "inventory", "configuration" >>

\* C9: the steps called by deploy_batch are a prefix of the four steps in
\* order, every step but the last called has succeeded, a failed step ends the
\* call with outcome False, and the outcome is True only after four
\* successful steps.
PipelineForward ==
    /\ Len(steps) <= Len(StepOrder)
    /\ \A i \in 1..Len(steps) : steps[i].name = StepOrder[i]
    /\ \A i \in 1..(Len(steps) - 1) : steps[i].out = "ok"
    /\ (steps # <<>> /\ steps[Len(steps)].out = "failed") =>
          (pc = "batch_return" /\ ~success)
    /\ pc = "batch_return" =>
          (success <=> (Len(steps) = Len(StepOrder)
                        /\ \A i \in 1..Len(steps) : steps[i].out = "ok"))

\* C9 witness: inventory derivation failed after descriptors and provisioning
\* succeeded; configuration was not called and the outcome is False
PipelineForwardWitness ==
    /\ pc = "batch_return"
    /\ Len(steps) = 3
    /\ steps[3].out = "failed"
    /\ ~success

\* C10: in a full run no exception passes deploy_batch: the process never
\* dies of one raised while a batch is running (batch # NoBatch from the call
\* of deploy_batch to its return), a failed step leaves outcome False, and
\* whenever control is
\* back in the loop or past it every batch started has an entry in results.
FailuresBecomeOutcomes ==
    ~dry_run =>
        /\ pc = "crashed" => batch = NoBatch
        /\ (pc = "batch_return" /\ exc # "none") => ~success
        /\ pc \in {"loop", "report", "exit", "done"} =>
              Range(started) = DOMAIN results

\* C10 witness: an exception that is no CalledProcessError was turned into
\* the outcome False of a batch after an earlier batch had succeeded
FailuresBecomeOutcomesWitness ==
    /\ ~dry_run
    /\ pc = "batch_return"
    /\ exc \in ExceptionClasses \ {"CalledProcessError"}
    /\ ~success
    /\ \E b \in DOMAIN results : results[b]


SomeBatchFailed == \E b \in DOMAIN results : ~results[b]

\* C11: the report of a full run is made from results holding exactly the
\* batches 1..k taken by the loop, all but possibly the last successful; if
\* the last one failed the counts are k, k-1, 1, otherwise k is the number of
\* batches n and the counts are n, n, 0.
RunReport ==
    (~dry_run /\ Len(report) >= 1) =>
        LET r == report[1]
            k == r.total_batches
            n == Len(user_batches)
        IN  /\ k <= n
            /\ DOMAIN results = {BatchIdOf(j) : j \in 1..k}
            /\ \A j \in 1..(k - 1) : results[BatchIdOf(j)]
            /\ r.failed_batches <= 1
            /\ IF k >= 1 /\ ~results[BatchIdOf(k)]
               THEN r.successful_batches = k - 1 /\ r.failed_batches = 1
               ELSE k = n /\ r.successful_batches = n /\ r.failed_batches = 0

\* C11 witness: batch 2 of 3 failed; the report counts 2 batches, 1
\* successful, 1 failed
RunReportWitness ==
    /\ ~dry_run
    /\ pc = "done"
    /\ Len(user_batches) = 3
    /\ Len(report) = 1
    /\ report[1] = [total_batches |-> 2, successful_batches |-> 1,
                    failed_batches |-> 1]

\* C12 as stated: a full run that has ended has written one report and its
\* exit status is non-zero exactly when some batch failed.
ExitIffBatchFailed ==
    (~dry_run /\ pc = "done") =>
        /\ Len(report) = 1
        /\ (exit_code # 0) <=> SomeBatchFailed

\* C12 amended: at most one report is written, only after the loop has halted
\* (a batch failed) or completed, and before the exit status is decided; a
\* failed batch makes the exit status non-zero; the status is zero only if no
\* batch failed and the report was written; it is non-zero without a failed
\* batch only when generating the report raised.
ExitReflectsFailure ==
    ~dry_run =>
        /\ Len(report) <= 1
        /\ Len(report) = 1 =>
              /\ pc \in {"exit", "done"}
              /\ SomeBatchFailed \/ batchIdx = Len(user_batches)
        /\ pc = "exit" => (Len(report) = 1 /\ exit_code = -1)
        /\ pc = "done" =>
              /\ SomeBatchFailed => exit_code # 0
              /\ exit_code = 0 => (~SomeBatchFailed /\ Len(report) = 1)
              /\ (exit_code # 0 /\ ~SomeBatchFailed) =>
                    (Len(report) = 0 /\ exc \in {"TemplateError", "OSError"})

\* C12 witness: a full run ended with status 1 after a batch failed and the
\* report was written
ExitReflectsFailureWitness ==
    /\ ~dry_run
    /\ pc = "done"
    /\ exit_code = 1
    /\ Len(report) = 1
    /\ SomeBatchFailed
    /\ \E b \in DOMAIN results : results[b]


SampleDir == BatchDir(<<"sample">>)

\* C13: a dry run distributes the load, renders descriptors for the first
\* min(5, N) users only, into the sample directory only, and never reaches
\* provisioning or configuration: no terraform sub-step, no playbook, no
\* change of directory, no outputs, no batch started or recorded, no report,
\* and the only failures are those of descriptor generation.
DryRunSamplesOnly ==
    dry_run =>
        /\ pc \in {"main", "makedirs", "query", "generate", "render", "crashed", "done"}
        /\ tfLog = <<>> /\ outputs = {} /\ cwd = LaunchDir
        /\ pbIdx = 0 /\ pbRan = <<>>
        /\ started = <<>> /\ results = <<>> /\ steps = <<>> /\ report = <<>>
        /\ exc \in {"none", "OSError", "TemplateError"}
        /\ pc # "main" =>
              /\ DOMAIN vm_assignments = Range(users)
              /\ batch.batch_id = <<"sample">>
              /\ Len(batch.users) = Min(5, Len(users))
              /\ \A i \in 1..Len(batch.users) : batch.users[i] = users[i]
        /\ DOMAIN descriptors \subseteq {SampleDir}
        /\ SampleDir \in DOMAIN descriptors =>
              descriptors[SampleDir].users = batch.users

\* C13 witness: a dry run over 6 users has ended with descriptors for the
\* first 5
DryRunSamplesOnlyWitness ==
    /\ dry_run
    /\ pc = "done"
    /\ Len(users) = 6
    /\ SampleDir \in DOMAIN descriptors
    /\ descriptors[SampleDir].users = <<1, 2, 3, 4, 5>>


DigitValue(c) == CHOOSE d \in 0..9 : Digits[d + 1] = c

\* the number a sequence of decimal digits writes
RECURSIVE NumberOf(_)
NumberOf(ds) ==
    IF ds = <<>> THEN 0
    ELSE 10 * NumberOf(SubSeq(ds, 1, Len(ds) - 1)) + DigitValue(ds[Len(ds)])

\* C14: the k-th planned batch carries "batch_" followed by k written in
\* decimal, padded with zeros to three digits; distinct batches have distinct
\* ids and distinct directories, and the descriptors found in the directory
\* of batch k are those of batch k.
BatchIdsSequential ==
    /\ \A k \in 1..Len(user_batches) :
          LET id == BatchIdOf(k)
          IN  /\ Head(id) = "batch_"
              /\ Len(Tail(id)) = 3
              /\ \A i \in 1..3 : Tail(id)[i] \in Range(Digits)
              /\ NumberOf(Tail(id)) = k
              /\ BatchDir(id) \in DOMAIN descriptors =>
                    /\ descriptors[BatchDir(id)].batch_id = id
                    /\ descriptors[BatchDir(id)].users = user_batches[k].users
    /\ \A k, j \in 1..Len(user_batches) :
          k # j => (BatchIdOf(k) # BatchIdOf(j)
                    /\ BatchDir(BatchIdOf(k)) # BatchDir(BatchIdOf(j)))

\* C14 witness: the third batch is batch_003 and has rendered its descriptors
\* next to those of batch_001 and batch_002
BatchIdsSequentialWitness ==
    /\ Len(user_batches) = 3
    /\ BatchIdOf(3) = << "batch_", "0", "0", "3" >>
    /\ Cardinality(DOMAIN descriptors) = 3
    /\ BatchDir(BatchIdOf(3)) \in DOMAIN descriptors


\* ------------------------------------------------- planning applied twice

\* node_assignments = {node.name: [] for node in self.nodes}: every call
\* starts from empty lists, whatever an earlier call returned
ListsKept(previous, node_names) ==
    IF DOMAIN previous = Range(node_names) THEN previous
    ELSE [n \in Range(node_names) |-> <<>>]
InitialLists(previous, node_names) == [n \in Range(node_names) |-> <<>>]

\* calculate_load_distribution and the batch comprehension, first call
FirstPlanning ==
    /\ pc = "main"
    /\ vm_assignments' = AllVmAssignments(users, templates, nodes)
    /\ node_assignments' =
          AppendUsers(users, 0, nodes, InitialLists(node_assignments, nodes))
    /\ user_batches' = PlanBatches(users, 0, batch_size)
    /\ pc' = "planned"
    /\ UNCHANGED << inputs, deployments, cluster, results, batchIdx, started, batch, alloc,
                    descriptors, tf, ansible, steps, exc, success, report,
                    exit_code >>

\* the same two computations called again on the unchanged inputs
RepeatPlanning ==
    /\ pc = "planned"
    /\ vm_assignments' = AllVmAssignments(users, templates, nodes)
    /\ node_assignments' =
          AppendUsers(users, 0, nodes, InitialLists(node_assignments, nodes))
    /\ user_batches' = PlanBatches(users, 0, batch_size)
    /\ pc' = "replanned"
    /\ UNCHANGED << inputs, deployments, cluster, results, batchIdx, started, batch, alloc,
                    descriptors, tf, ansible, steps, exc, success, report,
                    exit_code >>

NextPlanning ==
    \/ FirstPlanning
    \/ RepeatPlanning

SpecPlanning == Init /\ [][NextPlanning]_vars

TfOrder == << "init", "plan", "apply", "output" >>

TfPcs == {"tf_init", "tf_plan", "tf_apply", "tf_output", "tf_finally"}

IsPrefix(s, t) == Len(s) <= Len(t) /\ s = SubSeq(t, 1, Len(s))

\* the position from which the i-th sub-step is invoked
TfPcAt(i) == << "tf_init", "tf_plan", "tf_apply", "tf_output" >>[i]

\* C16: the provisioning sub-steps are invoked in the order init, plan,
\* apply, output; a sub-step is about to be invoked only when exactly the
\* earlier ones were invoked and none failed; after a failing sub-step no
\* later one is invoked and the provisioning step is recorded as failed; the
\* outputs of the batch are saved only after init, plan and apply succeeded
\* and the VMs of the batch exist.
ProvisioningOrdered ==
    /\ IsPrefix(tfLog, TfOrder)
    /\ \A i \in 1..Len(TfOrder) :
          pc = TfPcAt(i) => (Len(tfLog) = i - 1 /\ exc = "none")
    /\ (pc = "tf_finally" /\ exc # "none") =>
          BatchDir(batch.batch_id) \notin outputs
    /\ (batch # NoBatch /\ BatchDir(batch.batch_id) \in outputs) =>
          /\ tfLog = TfOrder
          /\ \A k \in Range(KeyOrder(batch.users, templates)) :
                vm_ids[k] \in ClusterIds
    /\ (Len(steps) >= 2 /\ pc \notin TfPcs \cup {"tf_chdir"}) =>
          IF steps[2].out = "ok"
          THEN tfLog = TfOrder /\ BatchDir(batch.batch_id) \in outputs
          ELSE /\ steps[2].out = "failed"
               /\ Len(steps) = 2
               /\ pc = "batch_return"
               /\ ~success
               /\ BatchDir(batch.batch_id) \notin outputs

\* C16 witness: plan exited non-zero after a successful init; apply and
\* output were not invoked
ProvisioningOrderedWitness ==
    /\ pc = "tf_finally"
    /\ exc = "CalledProcessError"
    /\ tfLog = << "init", "plan" >>
    /\ outputs = {}

RECURSIVE IsSubsequence(_, _)
IsSubsequence(s, t) ==
    IF s = <<>> THEN TRUE
    ELSE IF t = <<>> THEN FALSE
    ELSE IF Head(s) = Head(t) THEN IsSubsequence(Tail(s), Tail(t))
    ELSE IsSubsequence(s, Tail(t))

\* C18: the playbooks executed are taken from the fixed list in its order,
\* each at most once and none beyond the one under consideration; when the
\* configuration step ends well every playbook was considered, also when all
\* were absent; when it ends in failure the failing playbook is the last one
\* executed, so an absent playbook never fails the step and nothing runs
\* after a failure.
PlaybooksInOrder ==
    /\ IsSubsequence(pbRan, SubSeq(Playbooks, 1, Min(pbIdx, Len(Playbooks))))
    /\ pc = "playbooks" =>
          IsSubsequence(pbRan, SubSeq(Playbooks, 1, pbIdx - 1))
    /\ (pc = "batch_return" /\ Len(steps) = Len(StepOrder)) =>
          IF success
          THEN /\ pbIdx = Len(Playbooks) + 1
               /\ steps[Len(steps)].out = "ok"
          ELSE /\ pbIdx <= Len(Playbooks)
               /\ pbRan # <<>>
               /\ pbRan[Len(pbRan)] = Playbooks[pbIdx]
               /\ steps[Len(steps)].out = "failed"

\* C18 witness: the first playbook was absent, the second ran, the third
\* failed; the fourth was not executed
PlaybooksInOrderWitness ==
    /\ pc = "batch_return"
    /\ ~success
    /\ pbIdx = 3
    /\ pbRan = << Playbooks[2], Playbooks[3] >>


\* the batches that have reached their outcome: all started ones, but the
\* one deploy_batch is working on
Completed == IF batch = NoBatch THEN batchIdx ELSE batchIdx - 1

\* C19: the batches started so far are the first batchIdx batches of the
\* plan in order, none skipped; while batch k is worked on, exactly the
\* batches before k have an outcome (all of them successful), and k is the
\* only batch whose pipeline state exists; no later batch has left anything.
OneBatchAtATime ==
    ~dry_run =>
        /\ batchIdx <= Len(user_batches)
        /\ started = [j \in 1..batchIdx |-> BatchIdOf(j)]
        /\ DOMAIN results = {BatchIdOf(j) : j \in 1..Completed}
        /\ batch # NoBatch =>
              /\ batchIdx >= 1
              /\ batch = user_batches[batchIdx]
              /\ \A j \in 1..(batchIdx - 1) : results[BatchIdOf(j)]
        /\ batch = NoBatch =>
              (steps = <<>> /\ tfLog = <<>> /\ pbRan = <<>> /\ vm_ids = <<>>)
        /\ DOMAIN descriptors \subseteq
              {BatchDir(BatchIdOf(j)) : j \in 1..batchIdx}
        /\ outputs \subseteq {BatchDir(BatchIdOf(j)) : j \in 1..batchIdx}

\* C19 witness: the third batch is being provisioned after the first two
\* reached a successful outcome
OneBatchAtATimeWitness ==
    /\ ~dry_run
    /\ batchIdx = 3
    /\ pc = "tf_apply"
    /\ started = << BatchIdOf(1), BatchIdOf(2), BatchIdOf(3) >>
    /\ DOMAIN results = {BatchIdOf(1), BatchIdOf(2)}


\* C20: when deploy_batch has worked on a batch, self.deployments holds a
\* VMDeployment record for every (user, template) pair of the batch, in one
\* of the statuses pending, provisioned, configured, failed.
DeploymentRecordsCreated ==
    (~dry_run /\ pc = "batch_return") =>
        \A u \in Range(batch.users), t \in Range(templates) :
            \E i \in DOMAIN deployments :
                /\ deployments[i].user = u
                /\ deployments[i].vm_type = t
                /\ deployments[i].status \in
                      {"pending", "provisioned", "configured", "failed"}

====
